---- MODULE Spec2Model ----
(***************************************************************************)
(* Model of the step orchestration of pvnet.models.base_model.BaseModel:   *)
(* training_step / _training_accumulate_log, validation_step, test_step    *)
(* and on_test_epoch_end, driven by a Lightning-style trainer (Spec, and   *)
(* SpecFit for the fit loop's accumulation signal); of the construction of *)
(* the single_value baseline; and of the polling loop of                   *)
(* scripts/run_app_locally.py (SpecApp).                                   *)
(*                                                                         *)
(* Loss values are exact rationals <<numerator, denominator>> in lowest    *)
(* terms, so that "mean of the per-batch means" and "mean over the         *)
(* concatenated batch" are compared as numbers, not as syntax.             *)
(***************************************************************************)
EXTENDS Integers, Sequences, FiniteSets, TLC

(* ------------------------------ bounds --------------------------------- *)

\* largest trainer.accumulate_grad_batches explored
MaxAccum == 2

\* largest batch_idx the driver hands to training_step / test_step
MaxBatchIdx == 16

\* trainer.log_every_n_steps of the run
log_every_n_steps == 1

\* forecast_minutes // 30 of the run
forecast_len_30 == 2

\* largest number of test-step outputs the driver collects in one epoch
MaxOutputs == 3

\* cap on the records a training accumulator may hold
MaxBuffered == MaxAccum

\* cap on the elements the validation buffers may hold
MaxValBuffered == MaxAccum + 1

\* a validation run has at most this many batches (covers groups 0, 1 and 2)
MaxValBatches == 2 * MaxAccum + 1

(* ----------------------------- rationals ------------------------------- *)

Abs(x) == IF x < 0 THEN -x ELSE x

Max(a, b) == IF a >= b THEN a ELSE b

RECURSIVE GCD(_, _)
GCD(a, b) == IF b = 0 THEN a ELSE GCD(b, a % b)

\* n/d in lowest terms, d > 0
Rat(n, d) ==
    LET g == GCD(Abs(n), d)
    IN  IF n = 0 THEN <<0, 1>> ELSE <<n \div g, d \div g>>

RAdd(p, q) == Rat(p[1] * q[2] + q[1] * p[2], p[2] * q[2])

RDiv(p, k) == Rat(p[1], p[2] * k)

RECURSIVE RSum(_)
RSum(s) == IF s = <<>> THEN <<0, 1>> ELSE RAdd(Head(s), RSum(Tail(s)))

RECURSIVE SumInts(_)
SumInts(s) == IF s = <<>> THEN 0 ELSE Head(s) + SumInts(Tail(s))

\* torch.mean of a tensor given as the sequence of its integer entries
Mean(ints) == Rat(SumInts(ints), Len(ints))

RECURSIVE Flatten(_)
Flatten(ss) == IF ss = <<>> THEN <<>> ELSE Head(ss) \o Flatten(Tail(ss))

(* ------------------------- data set and network ------------------------ *)

\* the samples of the data set; a batch is a sequence of samples (its rows)
Samples == {1, 2}

Horizons == 1..forecast_len_30

\* batch[BatchKey.gsp][:, -forecast_len_30:, 0] for one sample
Target(s) == [h \in Horizons |-> s + h]

\* quantiles in tenths: [0.1, 0.5, 0.9]
Quantiles == <<1, 5, 9>>

\* output_quantiles=None
None == <<>>

\* self(batch) for one sample: a value per horizon, or per horizon a value
\* per quantile when output quantiles are configured
ForwardSample(s, quantiles) ==
    IF quantiles = None
    THEN [h \in Horizons |-> 2 * s * h]
    ELSE [h \in Horizons |-> [i \in 1..Len(quantiles) |->
                                 2 * s * h + (i - 2) * (s + h)]]

\* self(batch)
Forward(batch, quantiles) ==
    [i \in 1..Len(batch) |-> ForwardSample(batch[i], quantiles)]

\* y = batch[BatchKey.gsp][:, -self.forecast_len_30 :, 0]
GspTarget(batch) == [i \in 1..Len(batch) |-> Target(batch[i])]

\* the physical batches the data loader produces: of one and of two samples
Batches == {<<1>>, <<2>>, <<1, 2>>, <<2, 1>>}


(* ------------------------------- losses -------------------------------- *)

\* QuantileLoss.to_prediction: the slice of the 0.5 quantile
_quantiles_to_prediction(y_quantiles, quantiles) ==
    LET idx == CHOOSE i \in 1..Len(quantiles) : quantiles[i] = 5
    IN  [i \in 1..Len(y_quantiles) |->
            [h \in Horizons |-> y_quantiles[i][h][idx]]]

\* QuantileLoss.loss(y_quantiles, y).mean(): the pinball loss
\* 2 * max((q - 1) * e, q * e) with e = y - y_q, averaged over every entry
_calculate_qauntile_loss(y_quantiles, y, quantiles) ==
    LET entry(i, h, j) ==
            LET e == y[i][h] - y_quantiles[i][h][j]
            IN  2 * Max((quantiles[j] - 10) * e, quantiles[j] * e)
        perSample(i) ==
            Flatten([h \in Horizons |->
                        [j \in 1..Len(quantiles) |-> entry(i, h, j)]])
        all == Flatten([i \in 1..Len(y) |-> perSample(i)])
    IN  Rat(SumInts(all), 10 * Len(all))

\* the entries of the tensor y_hat - y, row after row, each with its horizon
Errors(y, y_hat) ==
    Flatten([i \in 1..Len(y) |-> [h \in Horizons |-> <<h, y_hat[i][h] - y[i][h]>>]])

\* WeightedLosses(forecast_length): weights that decay with the horizon
Weight(h) == forecast_len_30 + 1 - h

SquaredError(h, e) == e * e

AbsoluteError(h, e) == Abs(e)

WeightedSquaredError(h, e) == Weight(h) * e * e

WeightedAbsoluteError(h, e) == Weight(h) * Abs(e)

\* F.mse_loss(y_hat, y)
mse_loss(y, y_hat) ==
    LET d == Errors(y, y_hat)
    IN  Mean([k \in 1..Len(d) |-> SquaredError(d[k][1], d[k][2])])

\* mae_loss with reduction="sum"
mae_loss_sum(y, y_hat) ==
    LET d == Errors(y, y_hat)
    IN  <<SumInts([k \in 1..Len(d) |-> AbsoluteError(d[k][1], d[k][2])]), 1>>

\* F.l1_loss(y_hat, y)
mae_loss(y, y_hat) ==
    LET d == Errors(y, y_hat)
    IN  Mean([k \in 1..Len(d) |-> AbsoluteError(d[k][1], d[k][2])])

\* self.weighted_losses.get_mse_exp(output=y_hat, target=y)
mse_exp(y, y_hat) ==
    LET d == Errors(y, y_hat)
    IN  Mean([k \in 1..Len(d) |-> WeightedSquaredError(d[k][1], d[k][2])])

\* self.weighted_losses.get_mae_exp(output=y_hat, target=y)
mae_exp(y, y_hat) ==
    LET d == Errors(y, y_hat)
    IN  Mean([k \in 1..Len(d) |-> WeightedAbsoluteError(d[k][1], d[k][2])])

\* dict.update
Update(a, b) ==
    [k \in DOMAIN a \cup DOMAIN b |-> IF k \in DOMAIN b THEN b[k] ELSE a[k]]

\* {f"{k}{suffix}": v for k, v in losses.items()}
Suffixed(losses, suffix) ==
    [kk \in {k \o suffix : k \in DOMAIN losses} |->
        losses[CHOOSE k \in DOMAIN losses : k \o suffix = kk]]

\* _calculate_common_losses that leaves out the weighted MSE
_calculate_common_losses_without_mse_exp(y, y_hat, quantiles) ==
    LET point == IF quantiles # None
                 THEN _quantiles_to_prediction(y_hat, quantiles)
                 ELSE y_hat
        first == IF quantiles # None
                 THEN [k \in {"quantile_loss"} |->
                          _calculate_qauntile_loss(y_hat, y, quantiles)]
                 ELSE <<>>
        common == [k \in {"MSE", "MAE", "MAE_EXP"} |->
                     CASE k = "MSE" -> mse_loss(y, point)
                       [] k = "MAE" -> mae_loss(y, point)
                       [] k = "MAE_EXP" -> mae_exp(y, point)]
    IN  Update(first, common)

\* BaseModel._calculate_common_losses
_calculate_common_losses(y, y_hat, quantiles) ==
    LET point == IF quantiles # None
                 THEN _quantiles_to_prediction(y_hat, quantiles)
                 ELSE y_hat
        first == IF quantiles # None
                 THEN [k \in {"quantile_loss"} |->
                          _calculate_qauntile_loss(y_hat, y, quantiles)]
                 ELSE <<>>
        common == [k \in {"MSE", "MAE", "MSE_EXP", "MAE_EXP"} |->
                     CASE k = "MSE" -> mse_loss(y, point)
                       [] k = "MAE" -> mae_loss(y, point)
                       [] k = "MSE_EXP" -> mse_exp(y, point)
                       [] k = "MAE_EXP" -> mae_exp(y, point)]
    IN  Update(first, common)

\* f"{i:02}"
StepName == <<"00", "01", "02", "03">>

\* BaseModel._calculate_val_losses: the per-horizon MSE and MAE
_calculate_val_losses(y, y_hat, quantiles) ==
    LET point == IF quantiles # None
                 THEN _quantiles_to_prediction(y_hat, quantiles)
                 ELSE y_hat
        column(h, f(_, _)) ==
            Mean([i \in 1..Len(y) |-> f(h, point[i][h] - y[i][h])])
        mse == [k \in {"MSE_horizon/step_" \o StepName[h] : h \in Horizons} |->
                   column(CHOOSE h \in Horizons :
                              k = "MSE_horizon/step_" \o StepName[h], SquaredError)]
        mae == [k \in {"MAE_horizon/step_" \o StepName[h] : h \in Horizons} |->
                   column(CHOOSE h \in Horizons :
                              k = "MAE_horizon/step_" \o StepName[h], AbsoluteError)]
    IN  Update(mse, mae)

\* BaseModel._calculate_test_losses: no additional test losses
_calculate_test_losses(y, y_hat) == <<>>

(* ----------------------------- accumulators ---------------------------- *)

\* MetricAccumulator(), BatchAccumulator(), PredAccumulator(): nothing buffered
EmptyAccumulator == <<>>

\* Accumulator.append(record)
AccAppend(acc, record) == Append(acc, record)

\* MetricAccumulator.flush(): the mean of each key over the buffered records
MetricFlush(acc) ==
    [k \in DOMAIN acc[1] |->
        RDiv(RSum([i \in 1..Len(acc) |-> acc[i][k]]), Len(acc))]

\* BatchAccumulator.flush(), PredAccumulator.flush(): concatenation along
\* the batch dimension
TensorFlush(acc) == Flatten(acc)

(* -------------------------------- state -------------------------------- *)

VARIABLES
    stage,                    \* what the trainer runs: "fit", "validate", "test"
    accumulate_grad_batches,  \* trainer.accumulate_grad_batches
    output_quantiles,         \* self.output_quantiles
    batch_idx,                \* index of the next batch of the running epoch
    _accumulated_metrics,     \* self._accumulated_metrics
    _accumulated_batches,     \* self._accumulated_batches
    _accumulated_y_hat,       \* self._accumulated_y_hat
    has_val_accumulators,     \* hasattr(self, "_val_y_hats")
    _val_y_hats,              \* self._val_y_hats
    _val_batches,             \* self._val_batches
    outputs,                  \* the test_step results the driver has collected
    results_df,               \* the frame on_test_epoch_end handed to evaluation
    step,                     \* the latest call: operation and arguments
    logged,                   \* the mappings the latest call gave to log_dict
    figures,                  \* the figures the latest call rendered and stored
    ret,                      \* what the latest call returned
    raised,                   \* an exception left the latest call
    group,                    \* batch and loss record of each training step
                              \* since the last step that was the last of
                              \* its group
    val_figures,              \* figures logged so far in this validation run
    val_group,                \* the batches the running validation run has
                              \* handed in so far for the current group
    now,                      \* run_app_locally: pd.Timestamp.now(), in ticks
    pc,                       \* run_app_locally: the statement to run next
    t0,                       \* run_app_locally: t0 of the running iteration
    predicted,                \* run_app_locally: the t0 of every call of app()
                              \* and whether the prediction was saved
    delay_logs,               \* run_app_locally: the t0 of every attempt to log
                              \* the data-source delays and whether it worked
    app_step                  \* run_app_locally: the latest statement run

vars == <<stage, accumulate_grad_batches, output_quantiles, batch_idx,
          _accumulated_metrics, _accumulated_batches, _accumulated_y_hat,
          has_val_accumulators, _val_y_hats, _val_batches, outputs, results_df,
          step, logged, figures, ret, raised, group, val_figures, val_group,
          now, pc, t0, predicted, delay_logs, app_step>>

config == <<stage, accumulate_grad_batches, output_quantiles>>

training_state == <<_accumulated_metrics, _accumulated_batches, _accumulated_y_hat,
                    group>>

validation_state == <<has_val_accumulators, _val_y_hats, _val_batches, val_figures,
                      val_group>>

test_state == <<outputs, results_df>>

\* the state of the local production script
app_state == <<now, pc, t0, predicted, delay_logs, app_step>>

\* the state of the model and its trainer
model_state == <<config, batch_idx, training_state, validation_state, test_state,
                 step, logged, figures, ret, raised>>

\* a call that has not returned a value
NoReturn == [kind |-> "none"]

\* the local production script is not running
AppNotRunning ==
    /\ now = 0
    /\ pc = "off"
    /\ t0 = 0
    /\ predicted = <<>>
    /\ delay_logs = <<>>
    /\ app_step = [op |-> "off"]

\* BaseModel.__init__ and the trainer's configuration
ModelInit ==
    /\ stage \in {"fit", "validate", "test"}
    /\ accumulate_grad_batches \in 1..MaxAccum
    /\ output_quantiles \in {None, Quantiles}
    /\ batch_idx = 0
    /\ _accumulated_metrics = EmptyAccumulator
    /\ _accumulated_batches = EmptyAccumulator
    /\ _accumulated_y_hat = EmptyAccumulator
    /\ has_val_accumulators = FALSE
    /\ _val_y_hats = EmptyAccumulator
    /\ _val_batches = EmptyAccumulator
    /\ outputs = <<>>
    /\ results_df = <<>>
    /\ step = [op |-> "init"]
    /\ logged = <<>>
    /\ figures = <<>>
    /\ ret = NoReturn
    /\ raised = FALSE
    /\ group = <<>>
    /\ val_figures = 0
    /\ val_group = <<>>

Init == ModelInit /\ AppNotRunning

(* --------------------------- failing loss block ------------------------ *)

\* OnLossError with the append made before the loss block
OnLossErrorAfterAppend(acc, record) == AccAppend(acc, record)

\* the forward pass and the loss block are the first statements of every
\* step, before any append and any log_dict: when they raise, an accumulator
\* holds what it held when the step was called
OnLossError(acc, record) == acc

\* BaseModel.training_step(batch, batch_idx) on a batch whose forward pass or
\* loss block raises: nothing catches the exception
training_step_raises(batch) ==
    /\ stage = "fit"
    /\ ~raised
    /\ batch_idx <= MaxBatchIdx
    /\ _accumulated_metrics' = OnLossError(_accumulated_metrics, <<>>)
    /\ _accumulated_batches' = OnLossError(_accumulated_batches, batch)
    /\ _accumulated_y_hat' = OnLossError(_accumulated_y_hat, <<>>)
    /\ logged' = <<>>
    /\ figures' = <<>>
    /\ ret' = NoReturn
    /\ raised' = TRUE
    /\ step' = [op |-> "training_step_raises", batch_idx |-> batch_idx]
    /\ UNCHANGED <<app_state, config, batch_idx, group, validation_state, test_state>>

\* BaseModel.validation_step(batch, batch_idx) on a batch whose forward pass
\* or loss block raises
validation_step_raises(batch) ==
    /\ stage = "validate"
    /\ ~raised
    /\ batch_idx < MaxValBatches
    /\ _val_y_hats' = OnLossError(_val_y_hats, <<>>)
    /\ _val_batches' = OnLossError(_val_batches, batch)
    /\ logged' = <<>>
    /\ figures' = <<>>
    /\ ret' = NoReturn
    /\ raised' = TRUE
    /\ step' = [op |-> "validation_step_raises", batch_idx |-> batch_idx]
    /\ UNCHANGED <<app_state, config, batch_idx, training_state, has_val_accumulators,
                   val_figures, val_group, test_state>>

\* BaseModel.test_step(batch, batch_idx) on a batch whose forward pass or
\* loss block raises: the driver gets no output for the batch
test_step_raises(batch) ==
    /\ stage = "test"
    /\ ~raised
    /\ Len(outputs) < MaxOutputs
    /\ outputs' = OnLossError(outputs, batch)
    /\ logged' = <<>>
    /\ figures' = <<>>
    /\ ret' = NoReturn
    /\ raised' = TRUE
    /\ step' = [op |-> "test_step_raises", batch_idx |-> batch_idx]
    /\ UNCHANGED <<app_state, config, batch_idx, training_state, validation_state, results_df>>

(* ------------------------------ training ------------------------------- *)

\* plot_batch_forecasts(batch, y_hat, ...): the figure shows these rows
plot_batch_forecasts(batch, y_hat) == [batch |-> batch, y_hat |-> y_hat]

\* IsLastOfGroup that ignores the trainer's signal
IsLastOfGroupAlways(should_accumulate) == TRUE

\* IsLastOfGroup that never reports the end of a group
IsLastOfGroupNever(should_accumulate) == FALSE

\* not self.trainer.fit_loop._should_accumulate()
IsLastOfGroup(should_accumulate) == ~should_accumulate

\* FigureDue with the group number taken by floor division
FigureDueFloorDivision(idx, accumulate) ==
    ((idx + 1) \div accumulate) % (8 * log_every_n_steps) = 0

\* grad_batch_num = (batch_idx + 1) / accumulate_grad_batches is a true
\* division; grad_batch_num % (8 * log_every_n_steps) == 0 needs it to be a
\* whole number that is a multiple of 8 * log_every_n_steps
FigureDue(idx, accumulate) ==
    /\ (idx + 1) % accumulate = 0
    /\ ((idx + 1) \div accumulate) % (8 * log_every_n_steps) = 0

\* OptTarget that returns the MAE whatever the configuration
OptTargetAlwaysMAE(losses, quantiles) == losses["MAE/train"]

\* the scalar training_step returns
OptTarget(losses, quantiles) ==
    IF quantiles # None THEN losses["quantile_loss/train"] ELSE losses["MAE/train"]

\* FlushAll with the batch accumulator left unflushed
FlushAllButBatches(metrics, batches, y_hats) ==
    [metrics |-> EmptyAccumulator,
     batches |-> batches,
     y_hats  |-> EmptyAccumulator,
     losses  |-> MetricFlush(metrics),
     batch   |-> TensorFlush(batches),
     y_hat   |-> TensorFlush(y_hats)]

\* the three flush() calls of _training_accumulate_log: what each returns
\* and what each accumulator holds afterwards
FlushAll(metrics, batches, y_hats) ==
    [metrics |-> EmptyAccumulator,
     batches |-> EmptyAccumulator,
     y_hats  |-> EmptyAccumulator,
     losses  |-> MetricFlush(metrics),
     batch   |-> TensorFlush(batches),
     y_hat   |-> TensorFlush(y_hats)]

\* _training_accumulate_log that flushes the accumulators before it appends
\* to them
_training_accumulate_log_flush_first(batch, idx, losses, y_hat, should_accumulate, render_ok) ==
    IF IsLastOfGroup(should_accumulate)
    THEN [metrics |-> <<losses>>,
          batches |-> <<batch>>,
          y_hats  |-> <<y_hat>>,
          logged  |-> IF _accumulated_metrics = EmptyAccumulator
                      THEN <<>>
                      ELSE <<MetricFlush(_accumulated_metrics)>>,
          figures |-> <<>>,
          raised  |-> _accumulated_metrics = EmptyAccumulator,
          flushed |-> <<Len(_accumulated_metrics), Len(_accumulated_batches),
                        Len(_accumulated_y_hat)>>]
    ELSE [metrics |-> AccAppend(_accumulated_metrics, losses),
          batches |-> AccAppend(_accumulated_batches, batch),
          y_hats  |-> AccAppend(_accumulated_y_hat, y_hat),
          logged  |-> <<>>,
          figures |-> <<>>,
          raised  |-> FALSE,
          flushed |-> <<>>]

\* BaseModel._training_accumulate_log: the accumulators, the log and the
\* figure it leaves behind, and how many elements each flush() was called on
_training_accumulate_log(batch, idx, losses, y_hat, should_accumulate, render_ok) ==
    LET metrics == AccAppend(_accumulated_metrics, losses)
        batches == AccAppend(_accumulated_batches, batch)
        y_hats  == AccAppend(_accumulated_y_hat, y_hat)
    IN  IF IsLastOfGroup(should_accumulate)
        THEN LET flushed == FlushAll(metrics, batches, y_hats)
                 due     == FigureDue(idx, accumulate_grad_batches)
             IN  [metrics |-> flushed.metrics,
                  batches |-> flushed.batches,
                  y_hats  |-> flushed.y_hats,
                  logged  |-> <<flushed.losses>>,
                  figures |-> IF due /\ render_ok
                              THEN <<plot_batch_forecasts(flushed.batch, flushed.y_hat)>>
                              ELSE <<>>,
                  raised  |-> due /\ ~render_ok,
                  flushed |-> <<Len(metrics), Len(batches), Len(y_hats)>>]
        ELSE [metrics |-> metrics,
              batches |-> batches,
              y_hats  |-> y_hats,
              logged  |-> <<>>,
              figures |-> <<>>,
              raised  |-> FALSE,
              flushed |-> <<>>]

\* the loss mapping training_step computes for a batch
ComputeTrainLosses(batch, quantiles) ==
    Suffixed(_calculate_common_losses(GspTarget(batch), Forward(batch, quantiles),
                                      quantiles), "/train")

\* ComputeTrainLosses, tabulated once for every batch
TrainLossTable ==
    [quantiles \in {None, Quantiles} |->
        [batch \in Batches |-> ComputeTrainLosses(batch, quantiles)]]

TrainLosses(batch, quantiles) == TrainLossTable[quantiles][batch]

\* the latest call was the training step the trainer called the last of its
\* group
GroupClosed == step.op = "training_step" /\ ~step.should_accumulate

\* BaseModel.training_step(batch, batch_idx)
training_step(batch, should_accumulate, render_ok) ==
    /\ stage = "fit"
    /\ ~raised
    /\ batch_idx <= MaxBatchIdx
    /\ should_accumulate => Len(_accumulated_metrics) + 1 <= MaxBuffered
    \* rendering can only fail in a step that renders
    /\ ~render_ok => /\ IsLastOfGroup(should_accumulate)
                     /\ FigureDue(batch_idx, accumulate_grad_batches)
    /\ \E y_hat \in {Forward(batch, output_quantiles)} :
       \E losses \in {TrainLosses(batch, output_quantiles)} :
       \E after \in {_training_accumulate_log(batch, batch_idx, losses, y_hat,
                                              should_accumulate, render_ok)} :
        /\ _accumulated_metrics' = after.metrics
        /\ _accumulated_batches' = after.batches
        /\ _accumulated_y_hat' = after.y_hats
        /\ logged' = after.logged
        /\ figures' = after.figures
        /\ raised' = after.raised
        /\ ret' = IF after.raised
                  THEN NoReturn
                  ELSE [kind |-> "scalar",
                        value |-> OptTarget(losses, output_quantiles)]
        /\ step' = [op |-> "training_step", batch |-> batch, batch_idx |-> batch_idx,
                    should_accumulate |-> should_accumulate,
                    render_failed |-> after.raised,
                    flushed |-> after.flushed]
    /\ group' = (IF GroupClosed THEN <<>> ELSE group)
                    \o <<[batch |-> batch,
                          losses |-> TrainLosses(batch, output_quantiles)]>>
    /\ batch_idx' = batch_idx + 1
    /\ UNCHANGED <<app_state, config, validation_state, test_state>>

\* the fit loop ends the training epoch; the next one starts at batch 0
on_train_epoch_end ==
    /\ stage = "fit"
    /\ ~raised
    /\ batch_idx > 0
    /\ batch_idx' = 0
    /\ step' = [op |-> "on_train_epoch_end"]
    /\ logged' = <<>>
    /\ figures' = <<>>
    /\ ret' = NoReturn
    /\ group' = IF GroupClosed THEN <<>> ELSE group
    /\ UNCHANGED <<app_state, config, _accumulated_metrics, _accumulated_batches,
                   _accumulated_y_hat, validation_state, test_state, raised>>

(* ----------------------------- validation ------------------------------ *)

\* accum_batch_num in [0, 1]
InBufferedGroups(accum_batch_num) == accum_batch_num \in {0, 1}

\* (batch_idx + 1) % self.trainer.accumulate_grad_batches == 0
HadAccumulated(idx, accumulate) == (idx + 1) % accumulate = 0

\* ComputeValLosses with the training suffix
ComputeValLossesTrainSuffix(batch, quantiles) == ComputeTrainLosses(batch, quantiles)

\* what validation_step hands to log_dict
ComputeValLosses(batch, quantiles) ==
    LET y_hat  == Forward(batch, quantiles)
        y      == GspTarget(batch)
        losses == Update(_calculate_common_losses(y, y_hat, quantiles),
                         _calculate_val_losses(y, y_hat, quantiles))
    IN  Suffixed(losses, "/val")

\* ComputeValLosses, tabulated once for every batch
ValLossTable ==
    [quantiles \in {None, Quantiles} |->
        [batch \in Batches |-> ComputeValLosses(batch, quantiles)]]

ValLoggedLosses(batch, quantiles) == ValLossTable[quantiles][batch]

\* BaseModel.validation_step(batch, batch_idx)
validation_step(batch, render_ok) ==
    LET accum_batch_num == batch_idx \div accumulate_grad_batches
        buffer  == InBufferedGroups(accum_batch_num)
        flush   == buffer /\ HadAccumulated(batch_idx, accumulate_grad_batches)
        failed  == flush /\ ~render_ok
    IN  /\ stage = "validate"
        /\ ~raised
        /\ batch_idx < MaxValBatches
        /\ buffer => Len(_val_batches) + 1 <= MaxValBuffered
        \* rendering can only fail in a step that renders
        /\ ~render_ok => flush
        /\ \E logged_losses \in {ValLoggedLosses(batch, output_quantiles)} :
            /\ logged' = <<logged_losses>>
            /\ ret' = IF failed THEN NoReturn
                      ELSE [kind |-> "mapping", value |-> logged_losses]
        /\ \E y_hats \in {AccAppend(_val_y_hats, Forward(batch, output_quantiles))},
              batches \in {AccAppend(_val_batches, batch)} :
            /\ _val_y_hats' = IF ~buffer THEN _val_y_hats
                              ELSE IF flush THEN EmptyAccumulator ELSE y_hats
            /\ _val_batches' = IF ~buffer THEN _val_batches
                               ELSE IF flush THEN EmptyAccumulator ELSE batches
            /\ figures' = IF flush /\ render_ok
                          THEN <<plot_batch_forecasts(TensorFlush(batches),
                                                      TensorFlush(y_hats))>>
                          ELSE <<>>
            /\ step' = [op |-> "validation_step", batch |-> batch,
                        batch_idx |-> batch_idx, render_failed |-> failed,
                        flushed |-> IF flush THEN <<Len(y_hats), Len(batches)>>
                                    ELSE <<>>]
        /\ has_val_accumulators' = IF ~buffer THEN has_val_accumulators
                                   ELSE IF flush THEN failed ELSE TRUE
        /\ val_figures' = IF flush /\ render_ok THEN val_figures + 1 ELSE val_figures
        /\ val_group' = IF batch_idx % accumulate_grad_batches = 0
                        THEN <<batch>>
                        ELSE Append(val_group, batch)
        /\ raised' = failed
        /\ batch_idx' = batch_idx + 1
        /\ UNCHANGED <<app_state, config, training_state, test_state>>

\* the validation run ends; the next one starts at batch 0
on_validation_epoch_end ==
    /\ stage = "validate"
    /\ ~raised
    /\ batch_idx > 0
    /\ batch_idx' = 0
    /\ val_figures' = 0
    /\ val_group' = <<>>
    /\ step' = [op |-> "on_validation_epoch_end"]
    /\ logged' = <<>>
    /\ figures' = <<>>
    /\ ret' = NoReturn
    /\ UNCHANGED <<app_state, config, training_state, has_val_accumulators, _val_y_hats,
                   _val_batches, test_state, raised>>

(* -------------------------------- test --------------------------------- *)

\* construct_ocf_ml_metrics_batch_df(batch, y, y_hat): one row per sample and
\* horizon
construct_ocf_ml_metrics_batch_df(batch, y, y_hat) ==
    Flatten([i \in 1..Len(batch) |->
                [h \in Horizons |-> [id |-> batch[i], horizon |-> h,
                                     forecast |-> y_hat[i][h], actual |-> y[i][h]]]])

\* TestForecast that takes the first quantile for the point forecast
TestForecastFirstQuantile(y_hat, quantiles) ==
    IF quantiles # None
    THEN [i \in 1..Len(y_hat) |-> [h \in Horizons |-> y_hat[i][h][1]]]
    ELSE y_hat

\* the prediction test_step hands to the result frame
TestForecast(y_hat, quantiles) ==
    IF quantiles # None THEN _quantiles_to_prediction(y_hat, quantiles) ELSE y_hat

\* what test_step hands to log_dict
ComputeTestLosses(batch, quantiles) ==
    LET y_hat  == Forward(batch, quantiles)
        y      == GspTarget(batch)
        losses == Update(Update(_calculate_common_losses(y, y_hat, quantiles),
                                _calculate_val_losses(y, y_hat, quantiles)),
                         _calculate_test_losses(y, y_hat))
    IN  Suffixed(losses, "/test")

\* ComputeTestLosses, tabulated once for every batch
TestLossTable ==
    [quantiles \in {None, Quantiles} |->
        [batch \in Batches |-> ComputeTestLosses(batch, quantiles)]]

TestLoggedLosses(batch, quantiles) == TestLossTable[quantiles][batch]

\* what test_step returns
TestReturn(logged_losses, frame) == [kind |-> "frame", value |-> frame]

\* BaseModel.test_step(batch, batch_idx); the driver keeps what it returns
test_step(batch) ==
    /\ stage = "test"
    /\ ~raised
    /\ Len(outputs) < MaxOutputs
    /\ \E y_hat \in {Forward(batch, output_quantiles)} :
       \E logged_losses \in {TestLoggedLosses(batch, output_quantiles)} :
       \E frame \in {construct_ocf_ml_metrics_batch_df(
                         batch, GspTarget(batch),
                         TestForecast(y_hat, output_quantiles))} :
       \E result \in {TestReturn(logged_losses, frame)} :
        /\ logged' = <<logged_losses>>
        /\ ret' = result
        /\ outputs' = Append(outputs, result.value)
    /\ step' = [op |-> "test_step", batch |-> batch, batch_idx |-> batch_idx]
    /\ batch_idx' = batch_idx + 1
    /\ UNCHANGED <<app_state, config, training_state, validation_state, results_df,
                   figures, raised>>

\* pd.concat(outputs): the rows of every frame, in order
Concat(frames) == Flatten(frames)

\* "30_minutes", "60_minutes", ... of the evaluation's keys
HorizonName == <<"30", "60", "90", "120">>

\* evaluation(results_df, model_name="test", outturn_unit="mw"): the mean
\* absolute error of each forecast horizon over the rows of the frame
evaluation(df) ==
    LET key(h) == "test/mw/forecast_horizon_" \o HorizonName[h] \o "_minutes/mae"
        rows(h) == SelectSeq(df, LAMBDA r : r.horizon = h)
    IN  [k \in {key(h) : h \in Horizons} |->
            LET h == CHOOSE g \in Horizons : key(g) = k
            IN  Mean([i \in 1..Len(rows(h)) |->
                         Abs(rows(h)[i].forecast - rows(h)[i].actual)])]

\* EvaluatedFrame that keeps the rows of the earlier call
EvaluatedFrameKeepsRows(previous, frames) == previous \o Concat(frames)

\* the frame on_test_epoch_end evaluates, given the frame of an earlier call
EvaluatedFrame(previous, frames) == Concat(frames)

\* BaseModel.on_test_epoch_end(outputs); pd.concat raises on an empty list
on_test_epoch_end ==
    /\ stage = "test"
    /\ ~raised
    /\ step.op = "on_test_epoch_end" => step.call < 2
    /\ IF outputs = <<>>
       THEN /\ raised' = TRUE
            /\ logged' = <<>>
            /\ UNCHANGED results_df
       ELSE /\ raised' = FALSE
            /\ \E df \in {EvaluatedFrame(results_df, outputs)} :
                /\ results_df' = df
                /\ logged' = <<evaluation(df)>>
    /\ ret' = NoReturn
    /\ step' = [op |-> "on_test_epoch_end",
                call |-> IF step.op = "on_test_epoch_end" THEN step.call + 1 ELSE 1]
    /\ UNCHANGED <<app_state, config, batch_idx, training_state, validation_state, outputs,
                   figures>>

\* the driver drops the collected outputs and starts the next test run; the
\* frame of the finished call is gone with the call
TestEpochStart ==
    /\ stage = "test"
    /\ ~raised
    /\ step.op = "on_test_epoch_end"
    /\ outputs' = <<>>
    /\ results_df' = <<>>
    /\ batch_idx' = 0
    /\ step' = [op |-> "init"]
    /\ UNCHANGED <<app_state, config, training_state, validation_state,
                   logged, figures, ret, raised>>

(* ------------------------- single_value baseline ---------------------- *)

\* the parameters of BaseModel.__init__ that have no default
BaseModelRequired == {"history_minutes", "forecast_minutes", "optimizer"}

\* BaseModel.__init__(self, **arguments): Python raises TypeError when a
\* required parameter gets no argument; else the attributes it assigns
BaseModel__init__(arguments) ==
    IF BaseModelRequired \subseteq DOMAIN arguments
    THEN [error |-> "none",
          attributes |-> {"_optimizer", "lr", "history_minutes", "forecast_minutes",
                          "output_quantiles", "history_len_30", "forecast_len_30",
                          "weighted_losses", "_accumulated_metrics",
                          "_accumulated_batches", "_accumulated_y_hat"}]
    ELSE [error |-> "TypeError", attributes |-> {}]

\* single_value.Model.__init__(forecast_minutes, history_minutes): assigns the
\* two attributes, calls super().__init__() without arguments, then creates
\* the dummy parameter
Model__init__(forecast_minutes, history_minutes) ==
    LET own  == {"forecast_minutes", "history_minutes"}
        base == BaseModel__init__(<<>>)
    IN  IF base.error # "none"
        THEN [error |-> base.error, attributes |-> own]
        ELSE [error |-> "none",
              attributes |-> own \cup base.attributes \cup {"_dummy_parameters"}]

\* single_value.Model.forward(x) on a model with these attributes and this
\* value of the dummy parameter: reads self.forecast_len
forward(attributes, dummy, batch) ==
    IF {"forecast_len", "_dummy_parameters"} \subseteq attributes
    THEN [error |-> "none",
          y_hat |-> [i \in 1..Len(batch) |-> [h \in Horizons |-> dummy]]]
    ELSE [error |-> "AttributeError", y_hat |-> <<>>]

\* a process constructs the baseline: Model(forecast_minutes, history_minutes)
Model(forecast_minutes, history_minutes) ==
    /\ step.op = "init"
    /\ ~raised
    /\ \E built \in {Model__init__(forecast_minutes, history_minutes)} :
        /\ raised' = (built.error # "none")
        /\ ret' = IF built.error # "none" THEN NoReturn
                  ELSE [kind |-> "model", value |-> built.attributes]
        /\ step' = [op |-> "Model", forecast_minutes |-> forecast_minutes,
                    history_minutes |-> history_minutes, error |-> built.error,
                    attributes |-> built.attributes]
    /\ UNCHANGED <<app_state, config, batch_idx, training_state, validation_state,
                   test_state, logged, figures>>

(* ----------------------------- specification --------------------------- *)

Next ==
    \/ \E batch \in Batches, should_accumulate \in BOOLEAN, render_ok \in BOOLEAN :
           training_step(batch, should_accumulate, render_ok)
    \/ on_train_epoch_end
    \/ \E batch \in Batches, render_ok \in BOOLEAN : validation_step(batch, render_ok)
    \/ on_validation_epoch_end
    \/ \E batch \in Batches : test_step(batch)
    \/ on_test_epoch_end
    \/ TestEpochStart
    \/ \E batch \in Batches : training_step_raises(batch)
    \/ \E batch \in Batches : validation_step_raises(batch)
    \/ \E batch \in Batches : test_step_raises(batch)
    \/ \E forecast_minutes \in {120, 60}, history_minutes \in {60, 30} :
           Model(forecast_minutes, history_minutes)

Spec == Init /\ [][Next]_vars

(* --------------------------- Lightning fit loop ------------------------ *)

\* the fit loop's accumulation_done: (batch_idx + 1) is a multiple of
\* accumulate_grad_batches
AccumulationDone(idx, accumulate) == (idx + 1) % accumulate = 0

\* trainer.fit_loop._should_accumulate(): not the end of a group and not the
\* last batch of the epoch
_should_accumulate(idx, accumulate, is_last_batch) ==
    ~(AccumulationDone(idx, accumulate) \/ is_last_batch)

\* the latest training step was the last batch of its epoch inside a group
LastBatchForced ==
    /\ GroupClosed
    /\ ~AccumulationDone(step.batch_idx, accumulate_grad_batches)

\* the fit loop hands the next batch of the epoch to training_step
fit_loop_advance(batch, is_last_batch, render_ok) ==
    /\ ~LastBatchForced
    /\ training_step(batch,
                     _should_accumulate(batch_idx, accumulate_grad_batches,
                                        is_last_batch),
                     render_ok)

\* the fit loop ends the epoch after the batch it reported as the last one
fit_loop_epoch_end ==
    /\ GroupClosed
    /\ on_train_epoch_end

InitFit == Init /\ stage = "fit"

NextFit ==
    \/ \E batch \in Batches, is_last_batch \in BOOLEAN, render_ok \in BOOLEAN :
           fit_loop_advance(batch, is_last_batch, render_ok)
    \/ fit_loop_epoch_end

SpecFit == InitFit /\ [][NextFit]_vars

(* ------------------------ local production script --------------------- *)

\* timedelta(minutes=30) in ticks of the clock
HalfHour == 3

\* start_time, a 30-minute boundary
start_time == HalfHour

\* end_time, a 30-minute boundary
end_time == 3 * HalfHour

\* the clock is followed up to this time
MaxTime == end_time + HalfHour + 1

\* pd.Timestamp.ceil(timedelta(minutes=30))
Ceil(t) == ((t + HalfHour - 1) \div HalfHour) * HalfHour

\* sleep_until(wake_time) when the clock reads clock: how long it sleeps and
\* whether it warns
sleep_until(wake_time, clock) ==
    LET sleep_duration == wake_time - clock
    IN  IF sleep_duration < 0
        THEN [slept |-> 0, warned |-> TRUE]
        ELSE [slept |-> sleep_duration, warned |-> FALSE]

\* AfterPredict with a failure that leaves the script
AfterPredictUncaught(ok) == IF ok THEN "log" ELSE "crashed"

\* the statement after the try block around app() and to_csv: the bare
\* except logs the failure and execution goes on
AfterPredict(ok) == "log"

\* the statement after the try block around the delay log
AfterLog(ok) == "loop_test"

\* t0 = pd.Timestamp.now().ceil(timedelta(minutes=30))
NextT0(clock) == Ceil(clock)

\* time passes between two statements
Tick ==
    /\ pc \notin {"off", "done", "crashed"}
    /\ now < MaxTime
    /\ now' = now + 1
    /\ UNCHANGED <<model_state, pc, t0, predicted, delay_logs, app_step>>

\* os.makedirs(..., exist_ok=False), twice: raises when a directory exists
makedirs(exists) ==
    /\ pc = "makedirs"
    /\ pc' = IF exists THEN "crashed" ELSE "wait_start"
    /\ app_step' = [op |-> "makedirs", ok |-> ~exists]
    /\ UNCHANGED <<model_state, now, t0, predicted, delay_logs>>

\* if pd.Timestamp.now() < start_time
wait_start ==
    /\ pc = "wait_start"
    /\ pc' = IF now < start_time THEN "sleep_start" ELSE "loop_test"
    /\ app_step' = [op |-> "wait_start"]
    /\ UNCHANGED <<model_state, now, t0, predicted, delay_logs>>

\* sleep_until(start_time)
sleep_start ==
    /\ pc = "sleep_start"
    /\ \E r \in {sleep_until(start_time, now)} :
        /\ now' = now + r.slept
        /\ app_step' = [op |-> "sleep_until", slept |-> r.slept, warned |-> r.warned]
    /\ pc' = "loop_test"
    /\ UNCHANGED <<model_state, t0, predicted, delay_logs>>

\* while pd.Timestamp.now() < end_time
loop_test ==
    /\ pc = "loop_test"
    /\ pc' = IF now < end_time THEN "next_t0" ELSE "done"
    /\ app_step' = [op |-> "loop_test", clock |-> now]
    /\ UNCHANGED <<model_state, now, t0, predicted, delay_logs>>

\* t0 = pd.Timestamp.now().ceil(timedelta(minutes=30))
next_t0 ==
    /\ pc = "next_t0"
    /\ t0' = NextT0(now)
    /\ pc' = "sleep"
    /\ app_step' = [op |-> "next_t0", clock |-> now]
    /\ UNCHANGED <<model_state, now, predicted, delay_logs>>

\* sleep_until(t0)
sleep_t0 ==
    /\ pc = "sleep"
    /\ \E r \in {sleep_until(t0, now)} :
        /\ now' = now + r.slept
        /\ app_step' = [op |-> "sleep_until", slept |-> r.slept, warned |-> r.warned]
    /\ pc' = "predict"
    /\ UNCHANGED <<model_state, t0, predicted, delay_logs>>

\* the try block around app(write_predictions=False) and df.to_csv(...);
\* running it takes time
predict(ok) ==
    /\ pc = "predict"
    /\ predicted' = Append(predicted, [t0 |-> t0, ok |-> ok])
    /\ now' = now + 1
    /\ pc' = AfterPredict(ok)
    /\ app_step' = [op |-> "predict", ok |-> ok]
    /\ UNCHANGED <<model_state, t0, delay_logs>>

\* the try block around the log of the data sources' delays
log_delays(ok) ==
    /\ pc = "log"
    /\ delay_logs' = Append(delay_logs, [t0 |-> t0, ok |-> ok])
    /\ pc' = AfterLog(ok)
    /\ app_step' = [op |-> "log_delays", ok |-> ok]
    /\ UNCHANGED <<model_state, now, t0, predicted>>

\* the script is started at some time around start_time
InitApp ==
    /\ ModelInit
    /\ stage = "test"
    /\ accumulate_grad_batches = 1
    /\ output_quantiles = None
    /\ now \in 0..(start_time + HalfHour + 1)
    /\ pc = "makedirs"
    /\ t0 = 0
    /\ predicted = <<>>
    /\ delay_logs = <<>>
    /\ app_step = [op |-> "start"]

NextApp ==
    \/ Tick
    \/ \E exists \in BOOLEAN : makedirs(exists)
    \/ wait_start
    \/ sleep_start
    \/ loop_test
    \/ next_t0
    \/ sleep_t0
    \/ \E ok \in BOOLEAN : predict(ok)
    \/ \E ok \in BOOLEAN : log_delays(ok)

SpecApp == InitApp /\ [][NextApp]_vars

(* ------------------------------- claims -------------------------------- *)

\* the latest call was a training step and the trainer said "last batch of
\* the group"
TrainFlushStep == GroupClosed

\* the samples of the current group, as one batch
GroupRows == Flatten([i \in 1..Len(group) |-> group[i].batch])

\* the key-wise mean of a sequence of loss records
KeywiseMean(records) ==
    [k \in DOMAIN records[1] |->
        LET total == RSum([i \in 1..Len(records) |-> records[i][k]])
        IN  Rat(total[1], total[2] * Len(records))]

\* C1: the metric, batch and prediction accumulators of the training step
\* always hold the same number of elements, and a training step on which the
\* trainer reports the last batch of the group leaves all three empty.
C1_AccumulatorsInLockstep ==
    /\ Len(_accumulated_metrics) = Len(_accumulated_batches)
    /\ Len(_accumulated_batches) = Len(_accumulated_y_hat)
    /\ TrainFlushStep =>
          /\ Len(_accumulated_metrics) = 0
          /\ Len(_accumulated_batches) = 0
          /\ Len(_accumulated_y_hat) = 0

\* a flush of two buffered records has emptied the three accumulators
C1_Witness ==
    /\ TrainFlushStep
    /\ Len(group) = 2
    /\ _accumulated_metrics = <<>>
    /\ _accumulated_batches = <<>>
    /\ _accumulated_y_hat = <<>>

\* C2: a training step that is not the last of its group logs nothing; the
\* last step of a group logs exactly once, and what it logs is the key-wise
\* mean of the loss records of exactly the steps since the previous flush.
C2_LogsGroupMeanOnce ==
    step.op = "training_step" =>
        IF step.should_accumulate
        THEN logged = <<>>
        ELSE /\ Len(logged) = 1
             /\ logged[1] = KeywiseMean([i \in 1..Len(group) |-> group[i].losses])

\* the second group of an epoch, two batches with different losses, is
\* flushed
C2_Witness ==
    /\ TrainFlushStep
    /\ step.batch_idx >= 3
    /\ Len(group) = 2
    /\ group[1].losses # group[2].losses
    /\ Len(logged) = 1

\* C3: when the batches of a flushed group all have the same size, the
\* logged mapping equals, key by key, the losses computed on the one batch
\* made of the group's samples.
C3_AccumulationInvariance ==
    (TrainFlushStep
        /\ \A i \in 1..Len(group) : Len(group[i].batch) = Len(group[1].batch)) =>
        logged[1] = ComputeTrainLosses(GroupRows, output_quantiles)

\* two batches of one sample each, with different losses, flushed as a
\* group under quantile output
C3_Witness ==
    /\ TrainFlushStep
    /\ output_quantiles # None
    /\ Len(group) = 2
    /\ group[1].batch = <<1>>
    /\ group[2].batch = <<2>>
    /\ group[1].losses # group[2].losses
    /\ logged = <<TrainLosses(<<1, 2>>, output_quantiles)>>

\* the latest call rendered (or tried to render) a figure and that failed
RenderFailed ==
    step.op \in {"training_step", "validation_step"} /\ step.render_failed

\* the key of the optimisation target
TargetKey(quantiles) ==
    IF quantiles # None THEN "quantile_loss/train" ELSE "MAE/train"

\* C4: a failure to render or save the forecast figure in a training flush
\* step or a validation step does not leave the step as an exception; the
\* step returns what it returns when rendering succeeds and has logged its
\* metrics.
C4_RenderFailureIsolated ==
    RenderFailed =>
        /\ ~raised
        /\ Len(logged) = 1
        /\ ret = IF step.op = "training_step"
                 THEN [kind |-> "scalar",
                       value |-> TrainLosses(step.batch, output_quantiles)
                                     [TargetKey(output_quantiles)]]
                 ELSE [kind |-> "mapping", value |-> logged[1]]

\* C5: a training step that returns, returns the optimisation target of its
\* own batch: the quantile loss when quantiles are configured, else the MAE;
\* flush step or not.
C5_ReturnsBatchTarget ==
    (step.op = "training_step" /\ ~raised) =>
        ret = [kind |-> "scalar",
               value |-> TrainLosses(step.batch, output_quantiles)
                             [TargetKey(output_quantiles)]]

\* a flush step under quantile output returned the quantile loss of its
\* batch, which is neither the flushed group mean nor the batch's MAE
C5_Witness ==
    /\ TrainFlushStep
    /\ ~raised
    /\ output_quantiles # None
    /\ Len(group) = 2
    /\ ret.kind = "scalar"
    /\ ret.value = TrainLosses(step.batch, output_quantiles)["quantile_loss/train"]
    /\ ret.value # logged[1]["quantile_loss/train"]
    /\ ret.value # TrainLosses(step.batch, output_quantiles)["MAE/train"]

\* the keys of the common loss block
CommonKeys(quantiles) ==
    {"MSE", "MAE", "MSE_EXP", "MAE_EXP"}
        \cup (IF quantiles # None THEN {"quantile_loss"} ELSE {})

\* the keys of the per-horizon losses
HorizonKeys ==
    {"MSE_horizon/step_" \o StepName[h] : h \in Horizons}
        \cup {"MAE_horizon/step_" \o StepName[h] : h \in Horizons}

\* the point forecast of one sample at one horizon
PointForecast(s, h, quantiles) ==
    IF quantiles # None
    THEN ForwardSample(s, quantiles)[h][2]
    ELSE ForwardSample(s, quantiles)[h]

\* C6: every validation step logs once, a mapping with the keys of the
\* common and per-horizon losses suffixed "/val" that holds the losses of its
\* batch, wherever the batch lies in its group and whether or not a figure
\* is rendered; a step that returns, returns the mapping it logged.
C6_ValidationLogsOnce ==
    step.op = "validation_step" =>
        /\ Len(logged) = 1
        /\ DOMAIN logged[1] =
               {k \o "/val" : k \in CommonKeys(output_quantiles) \cup HorizonKeys}
        /\ logged[1]["MAE/val"] =
               Mean(Flatten([i \in 1..Len(step.batch) |->
                       [h \in Horizons |->
                           Abs(PointForecast(step.batch[i], h, output_quantiles)
                               - Target(step.batch[i])[h])]]))
        /\ ~raised => ret = [kind |-> "mapping", value |-> logged[1]]

\* the last batch of group 1 logged, rendered a figure and returned
C6_Witness ==
    /\ step.op = "validation_step"
    /\ accumulate_grad_batches = 2
    /\ step.batch_idx = 3
    /\ figures # <<>>
    /\ Len(logged) = 1
    /\ ret = [kind |-> "mapping", value |-> logged[1]]

\* the frame a test step builds for its batch: a row per sample and horizon
\* with the point forecast and the target
ExpectedFrame(batch, quantiles) ==
    [n \in 1..(Len(batch) * forecast_len_30) |->
        LET i == ((n - 1) \div forecast_len_30) + 1
            h == ((n - 1) % forecast_len_30) + 1
        IN  [id |-> batch[i], horizon |-> h,
             forecast |-> PointForecast(batch[i], h, quantiles),
             actual |-> Target(batch[i])[h]]]

\* C7 as stated: test_step returns the logged loss mapping and, with it, the
\* per-batch result frame.
C7_ReturnsLossesAndFrame ==
    step.op = "test_step" =>
        /\ ret.kind = "mapping_and_frame"
        /\ ret.losses = logged[1]
        /\ ret.frame = ExpectedFrame(step.batch, output_quantiles)

\* C7 amended: test_step logs the full loss mapping (keys suffixed "/test")
\* once and returns only the per-batch result frame, a row per sample and
\* horizon built from the point forecast.
C7_ReturnsFrameOnly ==
    step.op = "test_step" =>
        /\ Len(logged) = 1
        /\ DOMAIN logged[1] =
               {k \o "/test" : k \in CommonKeys(output_quantiles) \cup HorizonKeys}
        /\ ret.kind = "frame"
        /\ ret.value = ExpectedFrame(step.batch, output_quantiles)

\* a test step on a batch of two samples under quantile output returned a
\* frame of four rows
C7_Witness ==
    /\ step.op = "test_step"
    /\ output_quantiles # None
    /\ Len(step.batch) = 2
    /\ ret.kind = "frame"
    /\ Len(ret.value) = 2 * forecast_len_30
    /\ Len(logged) = 1

\* C8: a validation step of group 2 or later renders no figure, a
\* validation run logs at most two figures, and the validation buffers never
\* hold more than accumulate_grad_batches elements.
C8_ValidationBuffersBounded ==
    /\ (step.op = "validation_step"
          /\ step.batch_idx \div accumulate_grad_batches >= 2) => figures = <<>>
    /\ val_figures <= 2
    /\ Len(_val_batches) <= accumulate_grad_batches
    /\ Len(_val_y_hats) <= accumulate_grad_batches

\* the number of rows of the frames before frame i
RowsBefore(frames, i) == SumInts([j \in 1..(i - 1) |-> Len(frames[j])])

\* C9: the frame on_test_epoch_end evaluates holds the rows of the frames it
\* is given, in order, each once, and nothing else; also on a second call.
C9_EpochEndConcatenatesOnce ==
    (step.op = "on_test_epoch_end" /\ ~raised) =>
        /\ Len(results_df) = RowsBefore(outputs, Len(outputs) + 1)
        /\ \A i \in 1..Len(outputs) : \A j \in 1..Len(outputs[i]) :
               results_df[RowsBefore(outputs, i) + j] = outputs[i][j]

\* the second call in a row, on three frames
C9_Witness ==
    /\ step.op = "on_test_epoch_end"
    /\ step.call = 2
    /\ ~raised
    /\ Len(outputs) = 3
    /\ Len(results_df) = Len(outputs[1]) + Len(outputs[2]) + Len(outputs[3])

\* C10: a training step renders a figure only when the trainer reports the
\* last batch of the group and batch_idx + 1 is a multiple of
\* 8 * log_every_n_steps * accumulate_grad_batches, and it renders it from
\* the batches and predictions of the group flushed in that step.
C10_FigureOnlyOnDueFlush ==
    (step.op = "training_step" /\ figures # <<>>) =>
        /\ TrainFlushStep
        /\ (step.batch_idx + 1)
               % (8 * log_every_n_steps * accumulate_grad_batches) = 0
        /\ figures = <<[batch |-> GroupRows,
                        y_hat |-> Forward(GroupRows, output_quantiles)]>>

\* the eighth group of two batches is flushed and rendered
C10_Witness ==
    /\ TrainFlushStep
    /\ accumulate_grad_batches = 2
    /\ step.batch_idx = 8 * log_every_n_steps * 2 - 1
    /\ Len(group) = 2
    /\ Len(figures) = 1

\* the latest call was a step whose forward pass or loss block raised
LossBlockRaised ==
    step.op \in {"training_step_raises", "validation_step_raises", "test_step_raises"}

\* C11: a step whose loss computation raises lets the exception out, returns
\* nothing, logs nothing and leaves the training accumulators, the
\* validation buffers and the collected test outputs as they were before it.
C11_LossErrorPropagates ==
    [][LossBlockRaised' =>
          /\ raised'
          /\ ret' = NoReturn
          /\ logged' = <<>>
          /\ UNCHANGED <<_accumulated_metrics, _accumulated_batches,
                         _accumulated_y_hat, has_val_accumulators, _val_y_hats,
                         _val_batches, outputs>>]_vars

\* the loss block raised in a training step that found one record buffered,
\* and the record is still there
C11_Witness ==
    /\ step.op = "training_step_raises"
    /\ raised
    /\ Len(_accumulated_metrics) = 1
    /\ Len(_accumulated_batches) = 1
    /\ Len(_accumulated_y_hat) = 1
    /\ logged = <<>>

\* the keys of the common loss block under a suffix
SuffixedCommonKeys(suffix) == {k \o suffix : k \in CommonKeys(output_quantiles)}

\* C12: every record in the training metric accumulator, and every loss
\* record of the current group, has the keys MSE, MAE, MSE_EXP and MAE_EXP
\* and the key quantile_loss exactly when output quantiles are configured;
\* the mappings logged by validation and test steps hold the same common
\* keys under their own suffix.
C12_LossKeysStable ==
    /\ \A i \in 1..Len(_accumulated_metrics) :
           DOMAIN _accumulated_metrics[i] = SuffixedCommonKeys("/train")
    /\ \A i \in 1..Len(group) :
           DOMAIN group[i].losses = SuffixedCommonKeys("/train")
    /\ step.op = "validation_step" =>
           /\ SuffixedCommonKeys("/val") \subseteq DOMAIN logged[1]
           /\ "quantile_loss/val" \in DOMAIN logged[1] <=> output_quantiles # None
    /\ step.op = "test_step" =>
           /\ SuffixedCommonKeys("/test") \subseteq DOMAIN logged[1]
           /\ "quantile_loss/test" \in DOMAIN logged[1] <=> output_quantiles # None

\* two different loss records of one group are buffered under quantile
\* output, both with the five keys
C12_Witness ==
    /\ output_quantiles # None
    /\ Len(_accumulated_metrics) = 2
    /\ _accumulated_metrics[1] # _accumulated_metrics[2]
    /\ DOMAIN _accumulated_metrics[1] = DOMAIN _accumulated_metrics[2]
    /\ DOMAIN _accumulated_metrics[1] =
           {"quantile_loss/train", "MSE/train", "MAE/train", "MSE_EXP/train",
            "MAE_EXP/train"}

\* the samples of the current validation group, as one batch
ValGroupRows == Flatten(val_group)

\* C13: a figure logged by a validation step shows exactly the
\* accumulate_grad_batches batches of the step's group of the running
\* validation run, and the predictions for them; nothing buffered by an
\* earlier run or an earlier group.
C13_FigureFromOwnGroup ==
    (step.op = "validation_step" /\ figures # <<>>) =>
        /\ Len(val_group) = accumulate_grad_batches
        /\ figures = <<[batch |-> ValGroupRows,
                        y_hat |-> Forward(ValGroupRows, output_quantiles)]>>

\* C14: every flush() a training or validation step calls is called on an
\* accumulator that holds at least the element the same step appended to it.
C14_NoEmptyFlush ==
    step.op \in {"training_step", "validation_step"} =>
        \A i \in 1..Len(step.flushed) : step.flushed[i] >= 1

\* a training step that found the accumulators empty flushed them, and each
\* flush() was called on the one element the step had appended
C14_Witness ==
    /\ step.op = "training_step"
    /\ step.batch_idx = 0
    /\ step.flushed = <<1, 1, 1>>
    /\ Len(logged) = 1

\* the number of training steps since the last flush
StepsSinceFlush == IF GroupClosed \/ step.op = "on_train_epoch_end" THEN 0 ELSE Len(group)

\* C15 (under SpecFit): each training accumulator holds as many records as
\* there were training steps since the last flush, fewer than
\* accumulate_grad_batches, and none when an epoch has ended.
C15_TrainingBufferBounded ==
    /\ Len(_accumulated_metrics) = StepsSinceFlush
    /\ Len(_accumulated_batches) = StepsSinceFlush
    /\ Len(_accumulated_y_hat) = StepsSinceFlush
    /\ Len(_accumulated_metrics) < accumulate_grad_batches
    /\ step.op = "on_train_epoch_end" =>
           /\ _accumulated_metrics = EmptyAccumulator
           /\ _accumulated_batches = EmptyAccumulator
           /\ _accumulated_y_hat = EmptyAccumulator

\* the third batch of an epoch under accumulate_grad_batches = 2 was the
\* epoch's last: it was flushed alone and nothing is left for the next epoch
C15_Witness ==
    /\ accumulate_grad_batches = 2
    /\ step.op = "training_step"
    /\ step.batch_idx = 2
    /\ ~step.should_accumulate
    /\ Len(group) = 1
    /\ step.flushed = <<1, 1, 1>>
    /\ _accumulated_metrics = EmptyAccumulator
    /\ _accumulated_batches = EmptyAccumulator
    /\ _accumulated_y_hat = EmptyAccumulator

\* C16 (under SpecApp): a failed prediction step is followed by the attempt
\* to log the delays of the same t0, a failed log step by the next loop test;
\* neither ends the script, and the loop is left only when the clock has
\* reached end_time.
C16_FailuresDoNotStopLoop ==
    /\ (app_step.op = "predict" /\ ~app_step.ok) => pc = "log"
    /\ (app_step.op = "log_delays" /\ ~app_step.ok) => pc = "loop_test"
    /\ pc = "crashed" => app_step.op = "makedirs"
    /\ pc = "done" => now >= end_time
    /\ Len(delay_logs) = IF pc = "log" THEN Len(predicted) - 1 ELSE Len(predicted)
    /\ \A i \in 1..Len(delay_logs) : delay_logs[i].t0 = predicted[i].t0

\* the prediction and the log of one iteration both failed, and a later
\* iteration predicted again
C16_Witness ==
    /\ Len(predicted) >= 2
    /\ ~predicted[1].ok
    /\ Len(delay_logs) >= 1
    /\ ~delay_logs[1].ok
    /\ predicted[2].ok
    /\ predicted[2].t0 > predicted[1].t0

\* C17 (under SpecApp): every prediction is for a 30-minute boundary t0 with
\* start_time <= t0 < end_time, no two predictions are for the same t0, and
\* sleep_until never sleeps for a negative duration.
C17_PredictionTimes ==
    /\ \A i \in 1..Len(predicted) :
           /\ predicted[i].t0 % HalfHour = 0
           /\ start_time <= predicted[i].t0
           /\ predicted[i].t0 < end_time
    /\ \A i, j \in 1..Len(predicted) : i # j => predicted[i].t0 # predicted[j].t0
    /\ app_step.op = "sleep_until" => app_step.slept >= 0

\* C18: constructing the single_value baseline with its default arguments
\* raises nothing, and the forward pass of the constructed model returns the
\* dummy parameter at every forecast step of every sample.
C18_BaselineConstructsAndPredicts ==
    (step.op = "Model" /\ step.forecast_minutes = 120 /\ step.history_minutes = 60) =>
        /\ ~raised
        /\ step.error = "none"
        /\ \A batch \in Batches :
               forward(step.attributes, 0, batch) =
                   [error |-> "none",
                    y_hat |-> [i \in 1..Len(batch) |-> [h \in Horizons |-> 0]]]

====
